---------------------------- MODULE Spec2Model ----------------------------
(***************************************************************************)
(* Duplex session engine of the realtime voice client.                     *)
(*                                                                         *)
(* The engine variants of the repository are modelled side by side:        *)
(*   "RealtimeClient"      - src/realtime_local_asr.py (server VAD)        *)
(*   "RealtimeLocalASR"    - src/waste/tempCodeRunnerFile.py (local VAD)   *)
(*   "WasteRealtimeClient" - src/waste/realtime_client.py (server VAD, no  *)
(*                           keyboard interruption, no function calling)   *)
(*                                                                         *)
(* Concurrency.  run() gathers three coroutines on one asyncio event loop  *)
(* (start_audio_input, handle_messages, keyboard_listener); a coroutine    *)
(* runs without interruption by another coroutine from one await to the    *)
(* next.  The variable `loop` names the coroutine that is in the middle of *)
(* such a run ("idle" when all are parked at an await).  listen_keyboard   *)
(* is an OS thread: it interleaves with everything, also between its read  *)
(* of is_ai_speaking and its write of interrupt_flag.                      *)
(*                                                                         *)
(* `await ws.send(m)` hands m to the transport before it can suspend (the  *)
(* suspension is the drain that follows the write), so a send is modelled  *)
(* as: m joins `sent` in the step that calls send, and the coroutine       *)
(* resumes in a later step.  A send on a closed connection raises.         *)
(***************************************************************************)
EXTENDS Naturals, Sequences, FiniteSets

\* ------------------------------------------------------------------ bounds
MaxKeys   == 2   \* keypresses (returns of input()) in a run
MaxEvents == 3   \* events the server emits of its own accord in a run
MaxTools  == 1   \* function calls among them
MaxFrames == 3   \* frames the capture task reads in a run
MaxInbound == 2  \* events in flight from the server
MaxUtterances == 1  \* utterances the local segmenter closes in a run
MaxCaptured == 7    \* frames the local engine's capture task reads in a run

\* int(SAMPLE_RATE * MIN_SPEECH_DURATION / CHUNK_SIZE) = int(16000 * 0.3 / 1024)
MinSpeechFrames == 4

VARIABLES
    engine,                      \* which variant runs
    pcRun,                       \* run(): "init" | "running"
    session_id,                  \* "none" until session.created is handled
    tool,                        \* the tool call: its inputs and its result
    seg,                         \* the local segmenter (RealtimeLocalASR)
    is_running,
    is_ai_speaking,
    interrupt_flag,
    drop_audio_until_cancelled,
    output_stream,               \* "none" | "open" | "closed"
    ws,                          \* "none" | "open" | "closed"
    loop,                        \* coroutine holding the event loop
    pcKbd,                       \* listen_keyboard thread
    pcCtl,                       \* keyboard_listener coroutine
    pcMsg,                       \* handle_messages coroutine
    pcCap,                       \* start_audio_input coroutine
    call,                        \* the function call being handled
    inbound,                     \* events in flight, server -> client
    sent,                        \* events the client has sent, in order
    srv,                         \* the remote side
    frames,                      \* captured frames, with the flag at read time
    writes,                      \* calls of output_stream.write
    hist                         \* history the properties read

prog  == <<engine, pcRun, session_id, tool, seg>>
flags == <<is_running, is_ai_speaking, interrupt_flag, drop_audio_until_cancelled>>
dev   == <<output_stream, ws>>
pcs   == <<loop, pcKbd, pcCtl, pcMsg, pcCap>>
net   == <<inbound, sent, srv>>
logs  == <<frames, writes, hist>>

vars == <<prog, flags, dev, pcs, call, net, logs>>

\* The engines with the keyboard interruption controller.
Engines == {"RealtimeClient", "RealtimeLocalASR"}

\* The engines that stream captured frames to the server.
RemoteVadEngines == {"RealtimeClient", "WasteRealtimeClient"}

\* waste/realtime_client.py: echo cancellation is switched off.
ENABLE_ECHO_CANCELLATION == FALSE

NoCall == [id |-> 0, name |-> "none"]

\* An event of either direction: type, response or call id, argument.
Ev(t, n, a) == [type |-> t, id |-> n, arg |-> a]

\* The history at the start: keypresses so far, cancel-responses awaiting
\* their answer, whether a delta was dropped, the first delta after a
\* response.cancelled, whether captured frames are recorded in `frames`,
\* whether a capture read raised, how handle_messages ended, the
\* utterances the local segmenter has closed, whether an event of an
\* unknown type has been handled, whether accepted keypresses are counted,
\* and their number so far.
Hist0 == [keys |-> 0, pending |-> 0, dropped |-> 0, afterCancel |-> "none",
          frameLog |-> TRUE, readError |-> FALSE, msgEnd |-> "none",
          utterances |-> 0, ignored |-> FALSE, keyLog |-> FALSE, accepted |-> 0]

\* ------------------------------------------------------- function_tools.py
\* The registry of tools.
FUNCTION_MAP == {"end_conversation", "get_weather", "query_menu", "search_books"}

\* The names a function call can carry: a registered one, an unregistered
\* one, or None when the event has no name.
ToolNames == FUNCTION_MAP \cup {"no_such_tool", "None"}

\* The values an arguments string decodes to: objects with no keyword,
\* with one keyword, with a keyword no tool has, and values that are no
\* object.
ArgumentValues == {"{}", "{location}", "{category}", "{bogus}", "[]", "null"}

\* The arguments strings a function call can carry: the encodings of those
\* values, and a string that is no JSON document.
ArgumentStrings == ArgumentValues \cup {"not json"}

\* restaurant_menu.json and books_database.json in the working directory.
DataFiles == {"present", "missing", "corrupt"}

IsMapping(arguments) == arguments \in {"{}", "{location}", "{category}", "{bogus}"}

Keywords(arguments) ==
    CASE arguments = "{location}" -> {"location"}
      [] arguments = "{category}" -> {"category"}
      [] arguments = "{bogus}"    -> {"bogus"}
      [] OTHER                    -> {}

\* The keyword parameters of the four tools.
Parameters(function_name) ==
    CASE function_name = "end_conversation" -> {}
      [] function_name = "get_weather"      -> {"location", "date"}
      [] function_name = "query_menu"       ->
             {"category", "keyword", "spicy_level", "recommend_only"}
      [] function_name = "search_books"     ->
             {"query", "category", "author", "min_rating"}

\* The tools that read a data file.
ReadsFile(function_name) == function_name \in {"query_menu", "search_books"}

NoResult == [none |-> TRUE]

\* func(**arguments): the call raises TypeError when arguments is no mapping
\* or holds a keyword the function does not take; query_menu and
\* search_books return an error object when their file is missing and raise
\* when it cannot be decoded.
Call(function_name, arguments, files) ==
    IF ~IsMapping(arguments) \/ ~(Keywords(arguments) \subseteq Parameters(function_name))
    THEN [raised |-> "TypeError"]
    ELSE IF ReadsFile(function_name) /\ files = "missing"
    THEN [error |-> <<"file not found", function_name>>]
    ELSE IF ReadsFile(function_name) /\ files = "corrupt"
    THEN [raised |-> "JSONDecodeError"]
    ELSE [function |-> function_name, keywords |-> Keywords(arguments)]

\* An execute_function whose call of the tool is not guarded.
execute_function_unguarded(function_name, arguments) ==
    IF function_name \notin FUNCTION_MAP
    THEN [error |-> <<"unknown function", function_name>>]
    ELSE Call(function_name, arguments, tool.files)

\* execute_function: an unregistered name gives an error object; an
\* exception of the call is caught and turned into one.
execute_function(function_name, arguments) ==
    IF function_name \notin FUNCTION_MAP
    THEN [error |-> <<"unknown function", function_name>>]
    ELSE LET result == Call(function_name, arguments, tool.files)
         IN  IF "raised" \in DOMAIN result
             THEN [error |-> <<"execution error", result.raised>>]
             ELSE result

\* A tool call: the name and the arguments it carries, the state of the
\* data files, and the result of execute_function.
ToolWith(n, a, f) ==
    [call_id |-> 0, name |-> n, arguments |-> a, files |-> f, result |-> NoResult]

Tool0 == ToolWith("none", "{}", "present")

\* ------------------------------------------------------------ get_weather
\* The location and date strings a call can carry.
Locations == {"", "Beijing", "Shanghai"}

Dates == {"today", "tomorrow"}

\* weather_conditions: clear, cloudy, overcast, light rain, heavy rain, snow.
weather_conditions ==
    <<"clear", "cloudy", "overcast", "light rain", "heavy rain", "snow">>

\* The three winds random.choice draws from.
Winds == {"light breeze", "gentle breeze", "fresh breeze"}

\* A get_weather that draws the condition from the whole list.
get_weather_any_condition(location, date) ==
    { [location |-> location, date |-> date, condition |-> weather_conditions[c],
       temperature |-> t, temperature_low |-> l, wind |-> w] :
          c \in 1..Len(weather_conditions), t \in 15..30, l \in 10..20,
          w \in Winds }

\* get_weather: the objects a call can return.  The condition is
\* random.choice(weather_conditions[:4]), the temperature
\* random.randint(15, 30), the low random.randint(10, 20); humidity, aqi and
\* the constant suggestion are drawn the same way and are left out.
get_weather(location, date) ==
    { [location |-> location, date |-> date, condition |-> weather_conditions[c],
       temperature |-> t, temperature_low |-> l, wind |-> w] :
          c \in 1..4, t \in 15..30, l \in 10..20, w \in Winds }

\* --------------------------------------------- the segmenter's attributes
NoFrame == [n |-> 0, loud |-> FALSE]

\* speech_buffer, is_speaking and silence_start as __init__ leaves them.
\* silence_start is None, or a time less than SILENCE_DURATION ago
\* ("recent"), or a time more than SILENCE_DURATION ago ("old").
\* audio_data is the frame just read, captured counts the frames read,
\* heard tells of each of them whether it was loud, and transcribed lists
\* the buffers handed to whisper_model.transcribe.  flags tells of each frame
\* what is_ai_speaking was when it was read, and routed where the loop body
\* sent it: to the segmenter, or nowhere ("discard").  texts lists what
\* transcribe made of the buffers in transcribed.
Seg0 == [speech_buffer |-> <<>>, is_speaking |-> FALSE, silence_start |-> "None",
         audio_data |-> NoFrame, captured |-> 0, heard |-> <<>>,
         transcribed |-> <<>>, flags |-> <<>>, routed |-> <<>>, texts |-> <<>>]

\* A reset that leaves the silence timer as it is.
SegResetKeepsTimer(g) == [g EXCEPT !.speech_buffer = <<>>, !.is_speaking = FALSE]

\* The three assignments after `await self._process_speech()`.
SegReset(g) == [g EXCEPT !.speech_buffer = <<>>, !.is_speaking = FALSE,
                         !.silence_start = "None"]

\* ---------------------------------------------------------------- __init__
InitAll(engines, h, tools) ==
    /\ engine \in engines
    /\ pcRun = "init"
    /\ session_id = "none"
    /\ tool \in tools
    /\ seg = Seg0
    /\ is_running = FALSE
    /\ is_ai_speaking = FALSE
    /\ interrupt_flag = FALSE
    /\ drop_audio_until_cancelled = FALSE
    /\ output_stream = "none"
    /\ ws = "none"
    /\ loop = "idle"
    /\ pcKbd = "idle"
    /\ pcCtl = "idle"
    /\ pcMsg = "idle"
    /\ pcCap = "idle"
    /\ call = NoCall
    /\ inbound = <<>>
    /\ sent = <<>>
    /\ srv = [active |-> FALSE, events |-> 0, tools |-> 0, read |-> 0]
    /\ frames = <<>>
    /\ writes = <<>>
    /\ hist = h

InitWith(engines, h) == InitAll(engines, h, {Tool0})

InitOf(engines) == InitWith(engines, Hist0)

Init == InitOf(Engines)

\* A run() whose connect does not configure the session.
RunStartUnconfigured ==
    /\ pcRun = "init"
    /\ pcRun' = "running"
    /\ ws' = "open"
    /\ output_stream' = "open"
    /\ is_running' = TRUE
    /\ pcKbd' = "input"
    /\ pcCtl' = "poll"
    /\ pcMsg' = "recv"
    /\ pcCap' = "reading"
    /\ UNCHANGED <<engine, session_id, tool, seg, is_ai_speaking, interrupt_flag,
                   drop_audio_until_cancelled, loop, call, inbound, sent, srv,
                   logs>>

\* run(): connect (which sends session.update), start_audio_output, set
\* is_running, then gather the three coroutines.
RunStart ==
    /\ pcRun = "init"
    /\ pcRun' = "running"
    /\ ws' = "open"
    /\ sent' = Append(sent, Ev("session.update", 0, "config"))
    /\ output_stream' = "open"
    /\ is_running' = TRUE
    /\ pcKbd' = "input"
    /\ pcCtl' = "poll"
    /\ pcMsg' = "recv"
    /\ pcCap' = "reading"
    /\ UNCHANGED <<engine, session_id, tool, seg, is_ai_speaking, interrupt_flag,
                   drop_audio_until_cancelled, loop, call, inbound, srv, logs>>

\* --------------------------------------------- listen_keyboard (OS thread)
\* The thread is parked in input() whenever pcKbd = "input"; is_running is
\* read only at the top of its loop.
\* A thread that accepts every keypress.
KbdCheckUnconditional ==
    /\ pcKbd = "input"
    /\ hist.keys < MaxKeys
    /\ hist' = [hist EXCEPT !.keys = @ + 1]
    /\ pcKbd' = "set"
    /\ UNCHANGED <<prog, flags, dev, loop, pcCtl, pcMsg, pcCap, call, net,
                   frames, writes>>

\* input() returns (a keypress) and `if self.is_ai_speaking:` reads the
\* flag; a rejected keypress returns to the top of the loop.
KbdCheck ==
    /\ pcKbd = "input"
    /\ hist.keys < MaxKeys
    /\ hist' = [hist EXCEPT !.keys = @ + 1]
    /\ pcKbd' = IF is_ai_speaking THEN "set"
                ELSE IF is_running THEN "input" ELSE "done"
    /\ UNCHANGED <<prog, flags, dev, loop, pcCtl, pcMsg, pcCap, call, net,
                   frames, writes>>

\* `self.interrupt_flag = True` - the write: the keypress is accepted.
KbdSet ==
    /\ pcKbd = "set"
    /\ interrupt_flag' = TRUE
    /\ hist' = [hist EXCEPT !.accepted = IF hist.keyLog THEN @ + 1 ELSE @]
    /\ pcKbd' = IF is_running THEN "input" ELSE "done"
    /\ UNCHANGED <<prog, is_running, is_ai_speaking, drop_audio_until_cancelled,
                   dev, loop, pcCtl, pcMsg, pcCap, call, net, frames, writes>>

\* ------------------------------- keyboard_listener (interruption controller)
\* The poll finds interrupt_flag set: the suppress flag is written first.
CtlPickup ==
    /\ pcCtl = "poll"
    /\ loop = "idle"
    /\ is_running
    /\ interrupt_flag
    /\ drop_audio_until_cancelled' = TRUE
    /\ loop' = "ctl"
    /\ pcCtl' = "speaking"
    /\ UNCHANGED <<prog, is_running, is_ai_speaking, interrupt_flag, dev, pcKbd,
                   pcMsg, pcCap, call, net, logs>>

\* A controller that leaves is_ai_speaking alone.
CtlSetSpeakingSkipped ==
    /\ pcCtl = "speaking"
    /\ pcCtl' = IF output_stream # "none" THEN "close" ELSE "cancel"
    /\ UNCHANGED <<prog, flags, dev, loop, pcKbd, pcMsg, pcCap, call, net, logs>>

CtlSetSpeaking ==
    /\ pcCtl = "speaking"
    /\ is_ai_speaking' = FALSE
    /\ pcCtl' = IF output_stream # "none" THEN "close" ELSE "cancel"
    /\ UNCHANGED <<prog, is_running, interrupt_flag, drop_audio_until_cancelled,
                   dev, loop, pcKbd, pcMsg, pcCap, call, net, logs>>

\* stop_stream(); close(); self.audio.open(...): the new stream, or an
\* exception that is caught and leaves the closed stream in place.
CtlTeardown ==
    /\ pcCtl = "close"
    /\ \/ output_stream' = "open"
       \/ output_stream' = "closed"
    /\ pcCtl' = "cancel"
    /\ UNCHANGED <<prog, flags, ws, loop, pcKbd, pcMsg, pcCap, call, net, logs>>

\* await self.ws.send(response.cancel)
CtlSendCancel ==
    /\ pcCtl = "cancel"
    /\ loop' = "idle"
    /\ IF ws = "open"
       THEN /\ sent' = Append(sent, Ev("response.cancel", 0, "none"))
            /\ hist' = [hist EXCEPT !.pending = @ + 1]
            /\ pcCtl' = "sent"
       ELSE /\ pcCtl' = "failed"
            /\ UNCHANGED <<sent, hist>>
    /\ UNCHANGED <<prog, flags, dev, pcKbd, pcMsg, pcCap, call, inbound, srv,
                   frames, writes>>

\* A controller that waits for the cancellation to be confirmed before it
\* finishes the interrupt.
CtlAfterSendAwaitsConfirmation ==
    /\ pcCtl = "sent"
    /\ loop = "idle"
    /\ ~drop_audio_until_cancelled
    /\ interrupt_flag' = FALSE
    /\ pcCtl' = "poll"
    /\ UNCHANGED <<prog, is_running, is_ai_speaking, drop_audio_until_cancelled,
                   dev, loop, pcKbd, pcMsg, pcCap, call, net, logs>>

\* The send returned: interrupt_flag = False, then sleep.
CtlAfterSend ==
    /\ pcCtl = "sent"
    /\ loop = "idle"
    /\ interrupt_flag' = FALSE
    /\ pcCtl' = "poll"
    /\ UNCHANGED <<prog, is_running, is_ai_speaking, drop_audio_until_cancelled,
                   dev, loop, pcKbd, pcMsg, pcCap, call, net, logs>>

\* A controller whose except branch leaves the suppress flag set.
CtlAfterFailStaysMuted ==
    /\ pcCtl = "failed"
    /\ loop = "idle"
    /\ interrupt_flag' = FALSE
    /\ pcCtl' = "poll"
    /\ UNCHANGED <<prog, is_running, is_ai_speaking, drop_audio_until_cancelled,
                   dev, loop, pcKbd, pcMsg, pcCap, call, net, logs>>

\* The send raised: the suppress flag is cleared again.
CtlAfterFail ==
    /\ pcCtl = "failed"
    /\ loop = "idle"
    /\ drop_audio_until_cancelled' = FALSE
    /\ interrupt_flag' = FALSE
    /\ pcCtl' = "poll"
    /\ UNCHANGED <<prog, is_running, is_ai_speaking, dev, loop, pcKbd, pcMsg,
                   pcCap, call, net, logs>>

\* `while self.is_running` fails: the coroutine returns.
CtlExit ==
    /\ pcCtl = "poll"
    /\ loop = "idle"
    /\ ~is_running
    /\ pcCtl' = "done"
    /\ UNCHANGED <<prog, flags, dev, loop, pcKbd, pcMsg, pcCap, call, net, logs>>

\* ------------------------------------------------------------ handle_messages
\* `async for message in self.ws` delivers the head of the inbound stream to
\* a handler that is parked there.
\* A handler that takes the next message while the handling of the last one
\* is still under way.
ReceivesConcurrently(t) ==
    /\ pcMsg # "done"
    /\ loop = "idle"
    /\ inbound # <<>>
    /\ Head(inbound).type = t

Receives(t) ==
    /\ pcMsg = "recv"
    /\ loop = "idle"
    /\ inbound # <<>>
    /\ Head(inbound).type = t

Consume == inbound' = Tail(inbound)

\* A confirmation answers the oldest cancel-response still unanswered.
Confirmed(h) == [h EXCEPT !.pending = IF @ > 0 THEN @ - 1 ELSE 0]

\* History of an audio-delta: whether it was played, and whether it was the
\* first one handled since a response.cancelled.
Delta(h, played) ==
    [h EXCEPT !.dropped = IF played THEN @ ELSE @ + 1,
              !.afterCancel = IF @ = "armed"
                              THEN (IF played THEN "played" ELSE "dropped")
                              ELSE @]

\* A handler that plays every audio-delta, whatever the suppress flag.
HandleAudioDeltaUnguarded ==
    /\ Receives("response.audio.delta")
    /\ Consume
    /\ is_ai_speaking' = TRUE
    /\ hist' = Delta(hist, output_stream # "none")
    /\ writes' = IF output_stream # "none"
                 THEN Append(writes, [pending |-> hist.pending > 0,
                                      stream  |-> output_stream])
                 ELSE writes
    /\ UNCHANGED <<prog, is_running, interrupt_flag, drop_audio_until_cancelled,
                   dev, pcs, call, sent, srv, frames>>

\* response.audio.delta: dropped while the suppress flag is set, otherwise
\* is_ai_speaking = True and the decoded audio is written (a write that
\* raises is ignored).
HandleAudioDelta ==
    /\ Receives("response.audio.delta")
    /\ Consume
    /\ IF drop_audio_until_cancelled
       THEN /\ hist' = Delta(hist, FALSE)
            /\ UNCHANGED <<is_ai_speaking, writes>>
       ELSE /\ is_ai_speaking' = TRUE
            /\ hist' = Delta(hist, output_stream # "none")
            /\ writes' = IF output_stream # "none"
                         THEN Append(writes, [pending |-> hist.pending > 0,
                                              stream  |-> output_stream])
                         ELSE writes
    /\ UNCHANGED <<prog, is_running, interrupt_flag, drop_audio_until_cancelled,
                   dev, pcs, call, sent, srv, frames>>

\* A handler that leaves is_ai_speaking as it is when a response ends.
HandleResponseDoneKeepsSpeaking ==
    /\ \/ Receives("response.done")
       \/ Receives("response.audio.done")
    /\ Consume
    /\ UNCHANGED <<prog, flags, dev, pcs, call, sent, srv, logs>>

\* A handler that also clears the suppress flag when a response ends.
HandleResponseDoneClearing ==
    /\ \/ Receives("response.done")
       \/ Receives("response.audio.done")
    /\ Consume
    /\ is_ai_speaking' = FALSE
    /\ drop_audio_until_cancelled' = FALSE
    /\ UNCHANGED <<prog, is_running, interrupt_flag, dev, pcs, call, sent, srv,
                   logs>>

\* response.done and response.audio.done: is_ai_speaking = False.
HandleResponseDone ==
    /\ \/ Receives("response.done")
       \/ Receives("response.audio.done")
    /\ Consume
    /\ is_ai_speaking' = FALSE
    /\ UNCHANGED <<prog, is_running, interrupt_flag, drop_audio_until_cancelled,
                   dev, pcs, call, sent, srv, logs>>

\* response.cancelled: both flags are cleared.
HandleCancelled ==
    /\ Receives("response.cancelled")
    /\ Consume
    /\ is_ai_speaking' = FALSE
    /\ drop_audio_until_cancelled' = FALSE
    /\ hist' = [Confirmed(hist) EXCEPT !.afterCancel = "armed"]
    /\ UNCHANGED <<prog, is_running, interrupt_flag, dev, pcs, call, sent, srv,
                   frames, writes>>

\* The message test of the error branch: "Cancellation failed" or
\* "no active response" occurs in the message.
NothingToCancel(e) == e.arg = "no active response"

\* What the error branch makes of the suppress flag d: RealtimeClient clears
\* it on a nothing-to-cancel message, RealtimeLocalASR only prints the message.
ErrorClearsDrop(e, d) ==
    IF engine = "RealtimeClient" /\ NothingToCancel(e) THEN FALSE ELSE d

HandleError ==
    /\ Receives("error")
    /\ Consume
    /\ hist' = IF NothingToCancel(Head(inbound)) THEN Confirmed(hist) ELSE hist
    /\ drop_audio_until_cancelled' =
           ErrorClearsDrop(Head(inbound), drop_audio_until_cancelled)
    /\ UNCHANGED <<prog, is_running, is_ai_speaking, interrupt_flag, dev, pcs,
                   call, sent, srv, frames, writes>>

\* The first statement of _send_function_result: RealtimeClient resets the
\* suppress flag d, RealtimeLocalASR has no such statement.
ResultResetsDrop(d) == IF engine = "RealtimeClient" THEN FALSE ELSE d

\* json.loads(arguments_str) succeeds.
Decodes(arguments_str) == arguments_str # "not json"

\* The object the handler sends as the output of the call: the result of
\* execute_function, or error_result = {"error": str(e)} when json.loads
\* raised.
FunctionResult(function_name, arguments_str) ==
    IF Decodes(arguments_str)
    THEN execute_function(function_name, arguments_str)
    ELSE [error |-> <<"JSONDecodeError">>]

\* The tool call after the handler has computed its output.
Executed(call_id, function_name) ==
    [tool EXCEPT !.call_id = call_id,
                 !.name = function_name,
                 !.result = FunctionResult(function_name, tool.arguments)]

\* A handler without the end_conversation branch.
EndsConversationNever == FALSE

\* The branch `if function_name == "end_conversation"`, which is reached
\* only when json.loads did not raise.
EndsConversation == call.name = "end_conversation" /\ Decodes(tool.arguments)

\* A handler that yields to the other tasks between taking the
\* function_call_arguments.done event and sending the function-result.
HandleFunctionDoneDeferred ==
    /\ Receives("response.function_call_arguments.done")
    /\ Consume
    /\ drop_audio_until_cancelled' = ResultResetsDrop(drop_audio_until_cancelled)
    /\ call' = [id |-> Head(inbound).id, name |-> Head(inbound).arg]
    /\ tool' = Executed(Head(inbound).id, Head(inbound).arg)
    /\ pcMsg' = "fn_item"
    /\ UNCHANGED <<engine, pcRun, session_id, seg, is_running, is_ai_speaking,
                   interrupt_flag, dev, loop, pcKbd, pcCtl, pcCap, srv, sent,
                   logs>>

\* response.function_call_arguments.done: the arguments are decoded, the
\* function is executed and _send_function_result sends the
\* function_call_output item (from the except branch when json.loads
\* raised).  On a closed connection the send raises, the except branch calls
\* _send_function_result again, that send raises too and ends the handler.
HandleFunctionDone ==
    /\ Receives("response.function_call_arguments.done")
    /\ Consume
    /\ tool' = Executed(Head(inbound).id, Head(inbound).arg)
    /\ drop_audio_until_cancelled' = ResultResetsDrop(drop_audio_until_cancelled)
    /\ IF ws = "open"
       THEN /\ sent' = Append(sent, Ev("conversation.item.create",
                                       Head(inbound).id, "function_call_output"))
            /\ call' = [id |-> Head(inbound).id, name |-> Head(inbound).arg]
            /\ pcMsg' = "fn_item"
       ELSE /\ pcMsg' = "done"
            /\ UNCHANGED <<sent, call>>
    /\ UNCHANGED <<engine, pcRun, session_id, seg, is_running, is_ai_speaking,
                   interrupt_flag, dev, loop, pcKbd, pcCtl, pcCap, srv, logs>>

\* A handler that sends the function-result a second time before it asks
\* for the response.
FnSendResponseResending ==
    /\ pcMsg = "fn_item"
    /\ loop = "idle"
    /\ ws = "open"
    /\ sent' = sent \o <<Ev("conversation.item.create", call.id,
                             "function_call_output"),
                          Ev("response.create", call.id, "none")>>
    /\ pcMsg' = IF EndsConversation THEN "grace" ELSE "recv"
    /\ call' = NoCall
    /\ UNCHANGED <<prog, flags, dev, loop, pcKbd, pcCtl, pcCap, inbound, srv,
                   logs>>

\* The second send of _send_function_result: response.create.  When it
\* returns, end_conversation goes on to the grace period and any other
\* function back to the event loop.
FnSendResponse ==
    /\ pcMsg = "fn_item"
    /\ loop = "idle"
    /\ IF ws = "open"
       THEN /\ sent' = Append(sent, Ev("response.create", call.id, "none"))
            /\ pcMsg' = IF EndsConversation THEN "grace" ELSE "recv"
            /\ UNCHANGED drop_audio_until_cancelled
       ELSE /\ drop_audio_until_cancelled' =
                   ResultResetsDrop(drop_audio_until_cancelled)
            /\ pcMsg' = "done"
            /\ UNCHANGED sent
    /\ call' = NoCall
    /\ UNCHANGED <<prog, is_running, is_ai_speaking, interrupt_flag, dev, loop,
                   pcKbd, pcCtl, pcCap, inbound, srv, logs>>

\* asyncio.sleep(2) is over: is_running = False; return.
GraceEnd ==
    /\ pcMsg = "grace"
    /\ loop = "idle"
    /\ is_running' = FALSE
    /\ pcMsg' = "done"
    /\ UNCHANGED <<prog, is_ai_speaking, interrupt_flag,
                   drop_audio_until_cancelled, dev, loop, pcKbd, pcCtl, pcCap,
                   call, net, logs>>

\* The event types the if/elif chain has no branch for, and
\* response.function_call_arguments.delta, whose branch is `pass`.
Unrecognized == {"unknown.event"}

\* session.created: the session id is stored.
HandleSessionCreated ==
    /\ Receives("session.created")
    /\ Consume
    /\ session_id' = Head(inbound).arg
    /\ UNCHANGED <<engine, pcRun, tool, seg, flags, dev, pcs, call, sent, srv, logs>>

\* response.function_call_arguments.delta: the branch is `pass`.
HandleArgumentsDelta ==
    /\ Receives("response.function_call_arguments.delta")
    /\ Consume
    /\ UNCHANGED <<prog, flags, dev, pcs, call, sent, srv, logs>>

\* A handler for which an event without a branch is fatal.
HandleIgnoredFatal ==
    /\ \E t \in Unrecognized : Receives(t)
    /\ Consume
    /\ pcMsg' = "done"
    /\ hist' = [hist EXCEPT !.ignored = TRUE]
    /\ UNCHANGED <<prog, flags, dev, loop, pcKbd, pcCtl, pcCap, call, sent, srv,
                   frames, writes>>

\* No branch of the if/elif chain matches and there is no else: on to the
\* next message.
HandleIgnored ==
    /\ \E t \in Unrecognized : Receives(t)
    /\ Consume
    /\ hist' = [hist EXCEPT !.ignored = TRUE]
    /\ UNCHANGED <<prog, flags, dev, pcs, call, sent, srv, frames, writes>>

\* json.loads raises on a message that is no JSON document: the exception
\* leaves the `async for` and is caught by the `except Exception` around it,
\* which prints it; handle_messages returns.
HandleMalformed ==
    /\ Receives("malformed")
    /\ Consume
    /\ pcMsg' = "done"
    /\ hist' = [hist EXCEPT !.msgEnd = "error"]
    /\ UNCHANGED <<prog, flags, dev, loop, pcKbd, pcCtl, pcCap, call, sent, srv,
                   frames, writes>>

\* The connection is closed and nothing is left to deliver: the iteration
\* raises ConnectionClosed, which ends the handler.
HandleClosed ==
    /\ pcMsg = "recv"
    /\ loop = "idle"
    /\ inbound = <<>>
    /\ ws = "closed"
    /\ pcMsg' = "done"
    /\ hist' = [hist EXCEPT !.msgEnd = "closed"]
    /\ UNCHANGED <<prog, flags, dev, loop, pcKbd, pcCtl, pcCap, call, net,
                   frames, writes>>

\* ------------------------------------------ start_audio_input (server VAD)
\* input_stream.read returns in its worker thread: a frame is captured.  The
\* frame records the value is_ai_speaking had when it was captured and, once
\* the loop has tested the flag, the value it had then and the state of the
\* connection.
CapRead ==
    /\ pcCap = "reading"
    /\ engine \in RemoteVadEngines
    /\ hist.frameLog => Len(frames) < MaxFrames
    /\ frames' = IF hist.frameLog
                 THEN Append(frames, [seq |-> Len(frames) + 1,
                                      speaking |-> is_ai_speaking,
                                      tested |-> "unset",
                                      conn |-> "unset"])
                 ELSE frames
    /\ pcCap' = "got"
    /\ UNCHANGED <<prog, flags, dev, loop, pcKbd, pcCtl, pcMsg, call, net,
                   writes, hist>>

\* A capture loop that sends every frame.
CaptureSendsAlways(speaking) == TRUE

\* The flag test of the capture loop: `if not self.is_ai_speaking` in
\* RealtimeClient; in WasteRealtimeClient a frame is skipped only
\* `if self.is_ai_speaking and ENABLE_ECHO_CANCELLATION`.
CaptureSends(speaking) ==
    IF engine = "WasteRealtimeClient"
    THEN ~(speaking /\ ENABLE_ECHO_CANCELLATION)
    ELSE ~speaking

\* The coroutine resumes with the frame and sends input_audio_buffer.append
\* if the test passes; a send that raises breaks the loop.  Frames that are
\* not recorded leave no trace in `sent` either.
CapProcess ==
    /\ pcCap = "got"
    /\ engine \in RemoteVadEngines
    /\ loop = "idle"
    /\ frames' = IF hist.frameLog
                 THEN [frames EXCEPT ![Len(frames)].tested =
                           IF is_ai_speaking THEN "speaking" ELSE "silent",
                                      ![Len(frames)].conn = ws]
                 ELSE frames
    /\ IF CaptureSends(is_ai_speaking)
       THEN IF ws = "open"
            THEN /\ sent' = IF hist.frameLog
                            THEN Append(sent, Ev("input_audio_buffer.append",
                                                 frames[Len(frames)].seq, "audio"))
                            ELSE sent
                 /\ pcCap' = "sleep"
            ELSE /\ pcCap' = "done"
                 /\ UNCHANGED sent
       ELSE /\ pcCap' = "sleep"
            /\ UNCHANGED sent
    /\ UNCHANGED <<prog, flags, dev, loop, pcKbd, pcCtl, pcMsg, call, inbound,
                   srv, writes, hist>>

\* asyncio.sleep(0.001) is over: `while self.is_running`.
CapTop ==
    /\ pcCap = "sleep"
    /\ loop = "idle"
    /\ pcCap' = IF is_running THEN "reading" ELSE "done"
    /\ UNCHANGED <<prog, flags, dev, loop, pcKbd, pcCtl, pcMsg, call, net, logs>>

\* input_stream.read raises (a device error): the except branch prints the
\* error and breaks out of the loop.
CapReadError ==
    /\ pcCap = "reading"
    /\ pcCap' = "done"
    /\ hist' = [hist EXCEPT !.readError = TRUE]
    /\ UNCHANGED <<prog, flags, dev, loop, pcKbd, pcCtl, pcMsg, call, net,
                   frames, writes>>

\* ------------------------------------- start_audio_input (RealtimeLocalASR)
LocRead ==
    /\ pcCap = "reading"
    /\ engine = "RealtimeLocalASR"
    /\ pcCap' = "got"
    /\ UNCHANGED <<prog, flags, dev, loop, pcKbd, pcCtl, pcMsg, call, net, logs>>

\* The frame is skipped while the AI speaks.  Otherwise the segmenter either
\* goes on collecting, or it closes an utterance that is long enough and
\* _process_speech hands it to the transcriber in a worker thread.
LocProcess ==
    /\ pcCap = "got"
    /\ engine = "RealtimeLocalASR"
    /\ loop = "idle"
    /\ \E closes \in BOOLEAN :
           IF ~is_ai_speaking /\ closes /\ hist.utterances < MaxUtterances
           THEN /\ pcCap' = "transcribing"
                /\ hist' = [hist EXCEPT !.utterances = @ + 1]
           ELSE /\ pcCap' = "sleep"
                /\ UNCHANGED hist
    /\ UNCHANGED <<prog, flags, dev, loop, pcKbd, pcCtl, pcMsg, call, net,
                   frames, writes>>

\* result["text"] of a transcription: a text, a text with blanks around
\* it, blanks only, or nothing.
RawTexts == {"hello", " hello ", "  ", ""}

\* What whisper_model.transcribe does: it returns a result, or it raises.
Transcriptions == {[text |-> t] : t \in RawTexts} \cup {[raised |-> "RuntimeError"]}

\* A strip that leaves the text as it is.
StripNothing(text) == text

\* str.strip on the texts above.
Strip(text) ==
    CASE text = " hello " -> "hello"
      [] text = "  "      -> ""
      [] OTHER            -> text

\* text = result["text"].strip(), where there is a result.
TextOf(result) == IF "text" \in DOMAIN result THEN Strip(result.text) ELSE ""

\* The conversation item of _send_text_to_openai: a user message with the
\* text as input_text.
TextItem(text) == [type |-> "conversation.item.create", id |-> 0,
                   arg |-> "input_text", text |-> text]

\* The segmenter's record of the transcription of the buffer it handed over.
Transcribed(g, result) ==
    [g EXCEPT !.texts = IF Len(@) < Len(g.transcribed) THEN Append(@, result) ELSE @]

\* The transcription returns.  With a text, _send_text_to_openai sends the
\* user message item; without one, or when the transcription or the send
\* raises, _process_speech returns (it catches the exception).
LocTranscribed ==
    /\ pcCap = "transcribing"
    /\ loop = "idle"
    /\ \E result \in Transcriptions :
           IF TextOf(result) # "" /\ ws = "open"
           THEN /\ sent' = Append(sent, TextItem(TextOf(result)))
                /\ pcCap' = "loc_item"
                /\ seg' = Transcribed(seg, result)
           ELSE /\ pcCap' = "sleep"
                /\ seg' = SegReset(Transcribed(seg, result))
                /\ UNCHANGED sent
    /\ UNCHANGED <<engine, pcRun, session_id, tool, flags, dev, loop, pcKbd,
                   pcCtl, pcMsg, call, inbound, srv, logs>>

\* The second send of _send_text_to_openai: response.create.  Sent or not,
\* _process_speech returns and the segmenter is reset.
LocSendCreate ==
    /\ pcCap = "loc_item"
    /\ loop = "idle"
    /\ sent' = IF ws = "open"
               THEN Append(sent, Ev("response.create", 0, "none"))
               ELSE sent
    /\ pcCap' = "sleep"
    /\ seg' = SegReset(seg)
    /\ UNCHANGED <<engine, pcRun, session_id, tool, flags, dev, loop, pcKbd,
                   pcCtl, pcMsg, call, inbound, srv, logs>>

\* ----------------------------------- the segmenter (RealtimeLocalASR), frame
\* by frame.  input_stream.read returns a frame whose energy is above
\* ENERGY_THRESHOLD (loud) or not.  Where the frames of the server-VAD
\* engine are recorded, the local engine reads as many frames as that one.
SegRead ==
    /\ pcCap = "reading"
    /\ engine = "RealtimeLocalASR"
    /\ seg.captured < MaxCaptured
    /\ hist.frameLog => seg.captured < MaxFrames
    /\ \E loud \in BOOLEAN :
           seg' = [seg EXCEPT !.captured = @ + 1,
                              !.heard = Append(@, loud),
                              !.flags = Append(@, is_ai_speaking),
                              !.audio_data = [n |-> seg.captured + 1, loud |-> loud]]
    /\ pcCap' = "got"
    /\ UNCHANGED <<engine, pcRun, session_id, tool, flags, dev, loop, pcKbd,
                   pcCtl, pcMsg, call, net, logs>>

\* More than SILENCE_DURATION has passed since silence_start.
SilenceElapses ==
    /\ seg.silence_start = "recent"
    /\ seg' = [seg EXCEPT !.silence_start = "old"]
    /\ UNCHANGED <<engine, pcRun, session_id, tool, flags, dev, pcs, call, net,
                   logs>>

\* The frame closes the utterance: the segmenter is speaking, the frame is
\* not loud and silence_start is more than SILENCE_DURATION ago.
SegCloses ==
    /\ ~is_ai_speaking
    /\ ~seg.audio_data.loud
    /\ seg.is_speaking
    /\ seg.silence_start = "old"

\* A too-short test with the comparison the wrong way round.
TooShortInverted(g) == Len(g.speech_buffer) >= MinSpeechFrames

\* _process_speech hands the buffer to the transcriber unless it is shorter
\* than the minimum.
TooShort(g) == Len(g.speech_buffer) < MinSpeechFrames

\* A segmenter that takes every frame for speech.
SegFrameDeaf ==
    /\ pcCap = "got"
    /\ engine = "RealtimeLocalASR"
    /\ seg.audio_data # NoFrame
    /\ loop = "idle"
    /\ seg' = [seg EXCEPT !.audio_data = NoFrame,
                          !.routed = Append(@, "segmenter"),
                          !.is_speaking = TRUE,
                          !.speech_buffer = Append(@, seg.audio_data),
                          !.silence_start = "None"]
    /\ pcCap' = "sleep"
    /\ UNCHANGED <<engine, pcRun, session_id, tool, flags, dev, loop, pcKbd,
                   pcCtl, pcMsg, call, net, logs>>

\* A segmenter whose loud frames do not clear the silence timer.
SegFrameNoHysteresis ==
    /\ pcCap = "got"
    /\ engine = "RealtimeLocalASR"
    /\ seg.audio_data # NoFrame
    /\ loop = "idle"
    /\ LET f == seg.audio_data
           g == [seg EXCEPT !.audio_data = NoFrame,
                            !.routed = Append(@, IF is_ai_speaking THEN "discard"
                                                 ELSE "segmenter")]
       IN  IF is_ai_speaking
           THEN seg' = g /\ pcCap' = "sleep"
           ELSE IF f.loud
           THEN /\ seg' = [g EXCEPT !.is_speaking = TRUE,
                                    !.speech_buffer = Append(@, f)]
                /\ pcCap' = "sleep"
           ELSE IF ~seg.is_speaking
           THEN /\ seg' = [g EXCEPT !.speech_buffer = Append(@, f)]
                /\ pcCap' = "sleep"
           ELSE IF seg.silence_start = "None"
           THEN /\ seg' = [g EXCEPT !.silence_start = "recent"]
                /\ pcCap' = "sleep"
           ELSE IF seg.silence_start = "recent"
           THEN seg' = g /\ pcCap' = "sleep"
           ELSE IF TooShort(seg)
           THEN seg' = SegReset(g) /\ pcCap' = "sleep"
           ELSE /\ seg' = [g EXCEPT !.transcribed = Append(@, seg.speech_buffer)]
                /\ pcCap' = "transcribing"
    /\ UNCHANGED <<engine, pcRun, session_id, tool, flags, dev, loop, pcKbd,
                   pcCtl, pcMsg, call, net, logs>>

\* The body of the loop for the frame read.  A frame is skipped while the AI
\* speaks.  A loud frame sets is_speaking, joins the buffer and clears
\* silence_start.  A frame that is not loud joins the buffer when the
\* segmenter is not speaking; when it is, the frame starts the silence timer,
\* or, once the silence has lasted, closes the utterance: _process_speech
\* returns at once when the buffer is too short, otherwise it awaits the
\* transcription in a worker thread.
SegFrame ==
    /\ pcCap = "got"
    /\ engine = "RealtimeLocalASR"
    /\ seg.audio_data # NoFrame
    /\ loop = "idle"
    /\ LET f == seg.audio_data
           g == [seg EXCEPT !.audio_data = NoFrame,
                            !.routed = Append(@, IF is_ai_speaking THEN "discard"
                                                 ELSE "segmenter")]
       IN  IF is_ai_speaking
           THEN seg' = g /\ pcCap' = "sleep"
           ELSE IF f.loud
           THEN /\ seg' = [g EXCEPT !.is_speaking = TRUE,
                                    !.speech_buffer = Append(@, f),
                                    !.silence_start = "None"]
                /\ pcCap' = "sleep"
           ELSE IF ~seg.is_speaking
           THEN /\ seg' = [g EXCEPT !.speech_buffer = Append(@, f)]
                /\ pcCap' = "sleep"
           ELSE IF seg.silence_start = "None"
           THEN /\ seg' = [g EXCEPT !.silence_start = "recent"]
                /\ pcCap' = "sleep"
           ELSE IF seg.silence_start = "recent"
           THEN seg' = g /\ pcCap' = "sleep"
           ELSE IF TooShort(seg)
           THEN seg' = SegReset(g) /\ pcCap' = "sleep"
           ELSE /\ seg' = [g EXCEPT !.transcribed = Append(@, seg.speech_buffer)]
                /\ pcCap' = "transcribing"
    /\ UNCHANGED <<engine, pcRun, session_id, tool, flags, dev, loop, pcKbd,
                   pcCtl, pcMsg, call, net, logs>>

\* ------------------------------------------------------ run(): the finally
\* gather returns once the three coroutines have returned; cleanup clears
\* is_running, closes the output stream and then the connection.  Closing
\* an output stream that is already closed may raise, which ends cleanup
\* before the connection is closed.
RunCleanup ==
    /\ pcRun = "running"
    /\ pcCap = "done" /\ pcMsg = "done" /\ pcCtl = "done"
    /\ pcRun' = "done"
    /\ is_running' = FALSE
    /\ output_stream' = "closed"
    /\ ws' \in IF output_stream = "closed" THEN {ws, "closed"} ELSE {"closed"}
    /\ UNCHANGED <<engine, session_id, tool, seg, is_ai_speaking, interrupt_flag,
                   drop_audio_until_cancelled, pcs, call, net, logs>>

\* ------------------------------------------------------------ the remote side
\* The connection drops.
ConnectionLost ==
    /\ ws = "open"
    /\ ws' = "closed"
    /\ UNCHANGED <<prog, flags, output_stream, pcs, call, net, logs>>

\* The playback device fails: from now on output_stream.write raises.
PlaybackFails ==
    /\ output_stream = "open"
    /\ output_stream' = "broken"
    /\ UNCHANGED <<prog, flags, ws, pcs, call, net, logs>>

\* The inbound stream holds what the server emitted and the client has not
\* yet received.
CanEmit == ws = "open" /\ Len(inbound) < MaxInbound

CanEmitOwn == CanEmit /\ srv.active /\ srv.events < MaxEvents

Emitted(s) == [s EXCEPT !.events = @ + 1]

\* The server starts a response (speech was detected, or a turn was asked).
SrvStart ==
    /\ ws = "open"
    /\ ~srv.active
    /\ srv.events < MaxEvents
    /\ srv' = [srv EXCEPT !.active = TRUE]
    /\ UNCHANGED <<prog, flags, dev, pcs, call, inbound, sent, logs>>

SrvDelta ==
    /\ CanEmitOwn
    /\ inbound' = Append(inbound, Ev("response.audio.delta", 0, "audio"))
    /\ srv' = Emitted(srv)
    /\ UNCHANGED <<prog, flags, dev, pcs, call, sent, logs>>

SrvTool ==
    /\ CanEmitOwn
    /\ srv.tools < MaxTools
    /\ \E name \in {"end_conversation", "get_weather"} :
           inbound' = Append(inbound, Ev("response.function_call_arguments.done",
                                         srv.tools + 1, name))
    /\ srv' = [Emitted(srv) EXCEPT !.tools = @ + 1]
    /\ UNCHANGED <<prog, flags, dev, pcs, call, sent, logs>>

\* A function call of any name, registered or not.
SrvToolCall ==
    /\ CanEmitOwn
    /\ srv.tools < MaxTools
    /\ \E name \in ToolNames :
           inbound' = Append(inbound, Ev("response.function_call_arguments.done",
                                         srv.tools + 1, name))
    /\ srv' = [Emitted(srv) EXCEPT !.tools = @ + 1]
    /\ UNCHANGED <<prog, flags, dev, pcs, call, sent, logs>>

SrvDone ==
    /\ CanEmitOwn
    /\ \E t \in {"response.audio.done", "response.done"} :
           inbound' = Append(inbound, Ev(t, 0, "none"))
    /\ srv' = [Emitted(srv) EXCEPT !.active = FALSE]
    /\ UNCHANGED <<prog, flags, dev, pcs, call, sent, logs>>

\* The server ends the response with response.done.
SrvResponseDone ==
    /\ CanEmitOwn
    /\ inbound' = Append(inbound, Ev("response.done", 0, "none"))
    /\ srv' = [Emitted(srv) EXCEPT !.active = FALSE]
    /\ UNCHANGED <<prog, flags, dev, pcs, call, sent, logs>>

\* The server emits an event of one of the types ts.
SrvEmits(ts) ==
    /\ CanEmit
    /\ srv.events < MaxEvents
    /\ \E t \in ts : inbound' = Append(inbound, Ev(t, 0, "none"))
    /\ srv' = Emitted(srv)
    /\ UNCHANGED <<prog, flags, dev, pcs, call, sent, logs>>

\* The arguments of a function call in the making.
SrvArgumentsDelta == SrvEmits({"response.function_call_arguments.delta"})

\* An event of a type the engine does not know, or a message that is no
\* JSON document.
SrvOther == SrvEmits(Unrecognized \cup {"malformed"})

\* The first event of a session: session.created, with the session's id.
SrvCreated ==
    /\ CanEmit
    /\ session_id = "none"
    /\ inbound = <<>>
    /\ srv.events = 0
    /\ ~srv.active
    /\ inbound' = <<Ev("session.created", 0, "sess")>>
    /\ UNCHANGED <<prog, flags, dev, pcs, call, sent, srv, logs>>

\* The server reads the next client event.  response.cancel is answered by
\* response.cancelled when a response is active and by an error otherwise;
\* response.create starts a response, or is refused while one is active.
SrvRecv ==
    /\ CanEmit
    /\ srv.read < Len(sent)
    /\ LET m == sent[srv.read + 1]
           s == [srv EXCEPT !.read = @ + 1]
       IN  CASE m.type = "response.cancel" /\ srv.active ->
                    /\ inbound' = Append(inbound, Ev("response.cancelled", 0, "none"))
                    /\ srv' = [s EXCEPT !.active = FALSE]
             [] m.type = "response.cancel" /\ ~srv.active ->
                    /\ inbound' = Append(inbound, Ev("error", 0, "no active response"))
                    /\ srv' = s
             [] m.type = "response.create" /\ srv.active ->
                    /\ inbound' = Append(inbound, Ev("error", 0, "active response"))
                    /\ srv' = s
             [] m.type = "response.create" /\ ~srv.active ->
                    /\ inbound' = inbound
                    /\ srv' = [s EXCEPT !.active = s.events < MaxEvents]
             [] OTHER ->
                    /\ inbound' = inbound
                    /\ srv' = s
    /\ UNCHANGED <<prog, flags, dev, pcs, call, sent, logs>>

\* ------------------------------------------------------------ specification
Keyboard == KbdCheck \/ KbdSet

Controller == \/ CtlPickup \/ CtlSetSpeaking \/ CtlTeardown
              \/ CtlSendCancel \/ CtlAfterSend \/ CtlAfterFail \/ CtlExit

Handler == \/ HandleAudioDelta \/ HandleResponseDone \/ HandleCancelled
           \/ HandleError \/ HandleFunctionDone \/ FnSendResponse
           \/ GraceEnd \/ HandleClosed

Capture == CapRead \/ CapProcess \/ CapTop

Server == ConnectionLost \/ SrvStart \/ SrvDelta \/ SrvTool \/ SrvDone \/ SrvRecv

\* The interruption protocol: keyboard thread, controller, event handler and
\* the remote side.
Next == RunStart \/ Keyboard \/ Controller \/ Handler \/ Server

Spec == Init /\ [][Next]_vars

\* The keypresses of a session, with the accepted ones counted: keyboard
\* thread and controller beside the handling of audio, of the ends of
\* responses and of the answers to cancel-response.
InitKeys == InitWith(Engines, [Hist0 EXCEPT !.keyLog = TRUE])

NextKeys == \/ RunStart \/ Keyboard
            \/ CtlPickup \/ CtlSetSpeaking \/ CtlTeardown
            \/ CtlSendCancel \/ CtlAfterSend \/ CtlAfterFail
            \/ HandleAudioDelta \/ HandleResponseDone \/ HandleCancelled
            \/ HandleError \/ HandleClosed
            \/ ConnectionLost \/ SrvStart \/ SrvDelta \/ SrvDone \/ SrvRecv

SpecKeys == InitKeys /\ [][NextKeys]_vars

\* The capture path: the capture task beside the event handler and the
\* remote side.
InitCapture == InitOf(RemoteVadEngines)

NextCapture == \/ RunStart \/ Capture
               \/ HandleAudioDelta \/ HandleResponseDone \/ HandleClosed
               \/ ConnectionLost \/ SrvStart \/ SrvDelta \/ SrvDone \/ SrvRecv

SpecCapture == InitCapture /\ [][NextCapture]_vars

\* The session from start to shutdown, without keypresses: the capture task
\* of either engine, the event handler with its tool calls, the controller's
\* poll, cleanup, device failures and the remote side.  Frames are not
\* recorded.
InitSession == InitWith(Engines, [Hist0 EXCEPT !.frameLog = FALSE])

LocalCapture == LocRead \/ LocProcess \/ LocTranscribed \/ LocSendCreate

CaptureTask == Capture \/ CapReadError \/ LocalCapture

ToolCalls == HandleFunctionDone \/ FnSendResponse \/ GraceEnd

HandlerTask == \/ HandleAudioDelta \/ HandleResponseDone \/ HandleError
               \/ ToolCalls \/ HandleClosed

Environment == \/ ConnectionLost \/ PlaybackFails
               \/ SrvStart \/ SrvDelta \/ SrvTool \/ SrvDone \/ SrvRecv

NextSession == \/ RunStart \/ RunCleanup
               \/ CaptureTask \/ HandlerTask \/ CtlExit
               \/ Environment

\* The event loop runs every coroutine that is ready, the microphone keeps
\* delivering frames, sleeps and sends return.
FairSession == /\ WF_vars(CaptureTask)
               /\ WF_vars(HandlerTask)
               /\ WF_vars(CtlExit)
               /\ WF_vars(RunStart \/ RunCleanup)

SpecSession == InitSession /\ [][NextSession]_vars /\ FairSession

\* The event handler on its own inbound stream: tool calls and their
\* arguments, beside the local engine's capture task, which sends on the
\* same connection.
NextEvents == \/ RunStart \/ LocalCapture \/ CapTop
              \/ ToolCalls \/ HandleError \/ HandleArgumentsDelta
              \/ HandleClosed
              \/ ConnectionLost \/ SrvStart \/ SrvTool \/ SrvArgumentsDelta
              \/ SrvRecv

SpecEvents == InitSession /\ [][NextEvents]_vars

\* The event handler and the messages it has no branch for: a session is
\* created, audio is played, and events of unknown type and undecodable
\* messages arrive in between.
NextProtocol == \/ RunStart
                \/ HandleSessionCreated \/ HandleAudioDelta \/ HandleResponseDone
                \/ HandleIgnored \/ HandleMalformed \/ HandleClosed
                \/ ConnectionLost \/ SrvCreated \/ SrvStart \/ SrvDelta
                \/ SrvDone \/ SrvOther \/ SrvRecv

SpecProtocol == InitSession /\ [][NextProtocol]_vars

\* execute_function on its own: every name with every arguments value and
\* every state of the data files.
InitTools ==
    InitAll({"RealtimeClient"}, Hist0,
            {ToolWith(n, a, f) : n \in ToolNames, a \in ArgumentValues,
                                 f \in DataFiles})

\* result = execute_function(function_name, arguments)
ExecuteFunction ==
    /\ tool.result = NoResult
    /\ tool.name \in ToolNames
    /\ tool.arguments \in ArgumentValues
    /\ tool' = [tool EXCEPT !.result = execute_function(tool.name, tool.arguments)]
    /\ UNCHANGED <<engine, pcRun, session_id, seg, flags, dev, pcs, call, net, logs>>

SpecTools == InitTools /\ [][ExecuteFunction]_vars

\* get_weather on its own: every location with every date.
InitWeather ==
    InitAll({"RealtimeClient"}, Hist0,
            {ToolWith("get_weather", [location |-> l, date |-> d], "present") :
                 l \in Locations, d \in Dates})

\* weather_data = get_weather(location, date)
GetWeather ==
    /\ tool.result = NoResult
    /\ tool.name = "get_weather"
    /\ tool.arguments \in [location : Locations, date : Dates]
    /\ \E weather_data \in get_weather(tool.arguments.location, tool.arguments.date) :
           tool' = [tool EXCEPT !.result = weather_data]
    /\ UNCHANGED <<engine, pcRun, session_id, seg, flags, dev, pcs, call, net, logs>>

SpecWeather == InitWeather /\ [][GetWeather]_vars

\* The tool calls of a session: calls of every name, whose arguments string
\* and data files are those of the session.
InitToolCalls ==
    InitAll({"RealtimeClient"}, [Hist0 EXCEPT !.frameLog = FALSE],
            {ToolWith("none", a, f) : a \in ArgumentStrings, f \in DataFiles})

NextToolCalls == \/ RunStart \/ ToolCalls \/ HandleClosed
                 \/ ConnectionLost \/ SrvStart \/ SrvToolCall \/ SrvRecv

SpecToolCalls == InitToolCalls /\ [][NextToolCalls]_vars

\* The local engine's capture task on every sequence of loud and quiet
\* frames, with the time that passes between them.
InitSegmenter == InitWith({"RealtimeLocalASR"}, [Hist0 EXCEPT !.frameLog = FALSE])

NextSegmenter == \/ RunStart \/ SegRead \/ SegFrame \/ SilenceElapses
                 \/ LocTranscribed \/ LocSendCreate \/ CapTop
                 \/ ConnectionLost

SpecSegmenter == InitSegmenter /\ [][NextSegmenter]_vars

\* The end of a conversation: a tool call, with every arguments string,
\* among the audio of the responses around it.
InitEnding ==
    InitAll(Engines, [Hist0 EXCEPT !.frameLog = FALSE],
            {ToolWith("none", a, "present") : a \in ArgumentStrings})

NextEnding == \/ RunStart \/ ToolCalls
              \/ HandleAudioDelta \/ HandleResponseDone \/ HandleClosed
              \/ ConnectionLost \/ SrvStart \/ SrvDelta \/ SrvTool \/ SrvDone
              \/ SrvRecv

SpecEnding == InitEnding /\ [][NextEnding]_vars

\* The utterances of a session: the local engine's capture task on every
\* sequence of frames with every outcome of the transcription, and the
\* capture task of RealtimeClient.
NextUtterances == NextSegmenter \/ CapRead \/ CapProcess

SpecUtterances == InitSession /\ [][NextUtterances]_vars

\* The capture task of either engine beside the event handler: frames are
\* read while responses start, play and end with response.done.
InitRouting == InitOf(Engines)

NextRouting == \/ RunStart \/ Capture
               \/ SegRead \/ SegFrame \/ SilenceElapses
               \/ HandleAudioDelta \/ HandleResponseDone \/ HandleClosed
               \/ ConnectionLost \/ SrvStart \/ SrvDelta \/ SrvResponseDone
               \/ SrvRecv

SpecRouting == InitRouting /\ [][NextRouting]_vars

\* ================================================================ properties
\* The handler takes the head of the inbound stream of type t in this step.
Handles(t) == Receives(t) /\ Consume

\* The controller is between its poll and its await of the cancel send.
InControllerRun == pcCtl \in {"speaking", "close", "cancel"}

\* C1: between the sending of a cancel-response and the handling of its
\* confirmation (response.cancelled or a nothing-to-cancel error) no
\* audio-delta is written to the output device.
C1_DropUntilConfirmed == \A i \in 1..Len(writes) : ~writes[i].pending

\* C2: handling a nothing-to-cancel error clears the suppress flag, in every
\* engine variant.
C2_NothingToCancelClears ==
    [][(Handles("error") /\ NothingToCancel(Head(inbound)))
           => ~drop_audio_until_cancelled']_vars

\* C3: the controller sets the suppress flag first and clears is_ai_speaking
\* next, both before the output stream is torn down and before the
\* cancel-response is sent; the handler takes no inbound event in between;
\* when the cancel-response is sent the suppress flag is true and
\* is_ai_speaking is false.
C3_FlagsBeforeCancel ==
    [][/\ pcCtl = "speaking" => drop_audio_until_cancelled
       /\ pcCtl \in {"close", "cancel"} =>
              drop_audio_until_cancelled /\ ~is_ai_speaking
       /\ pcCtl # "close" => output_stream' = output_stream \/ pcRun = "init"
       /\ InControllerRun =>
              /\ pcMsg' = pcMsg
              /\ ~(inbound # <<>> /\ Consume)
       /\ sent' # sent /\ Len(sent') > 0 /\ sent'[Len(sent')].type = "response.cancel" =>
              /\ pcCtl = "cancel"
              /\ drop_audio_until_cancelled' /\ ~is_ai_speaking']_vars

C3_Witness ==
    /\ pcCtl = "sent"
    /\ sent[Len(sent)].type = "response.cancel"
    /\ output_stream = "open"
    /\ drop_audio_until_cancelled
    /\ ~is_ai_speaking
    /\ inbound # <<>>

\* C4: handling an audio-delta while the suppress flag is set has no effect:
\* nothing is written, is_ai_speaking and every other flag keep their values,
\* nothing is sent and the handler is back at its receive.
C4_SuppressedDeltaIsNoOp ==
    [][(Handles("response.audio.delta") /\ drop_audio_until_cancelled)
           => /\ UNCHANGED <<flags, dev, writes, sent, call, frames>>
              /\ pcMsg' = "recv"]_vars

C4_Witness ==
    /\ hist.dropped > 0
    /\ drop_audio_until_cancelled
    /\ ~is_ai_speaking
    /\ Len(writes) = 1

\* C5: handling response.cancelled leaves the suppress flag and
\* is_ai_speaking false, and the first audio-delta handled after it is
\* written to the output device.
C5_CancelledRearmsPlayback ==
    [][/\ Handles("response.cancelled") =>
              ~drop_audio_until_cancelled' /\ ~is_ai_speaking'
       /\ hist'.afterCancel # "dropped"]_vars

\* C6 as stated: only the handling of response.cancelled or of a
\* nothing-to-cancel error clears the suppress flag.
C6_OnlyConfirmationClears ==
    [][(drop_audio_until_cancelled /\ ~drop_audio_until_cancelled')
           => \/ Handles("response.cancelled")
              \/ Handles("error") /\ NothingToCancel(Head(inbound))]_vars

\* C6 amended: the suppress flag, once set, is cleared only by the handling
\* of response.cancelled, by the handling of a nothing-to-cancel error in
\* RealtimeClient, by a cancel-response send that raised, or by
\* _send_function_result in RealtimeClient; audio-deltas, the end of a
\* response, other errors and successful sends leave it set.
C6_WhatClearsSuppress ==
    [][(drop_audio_until_cancelled /\ ~drop_audio_until_cancelled')
           => \/ Handles("response.cancelled")
              \/ /\ engine = "RealtimeClient"
                 /\ Handles("error") /\ NothingToCancel(Head(inbound))
              \/ pcCtl = "failed" /\ pcCtl' = "poll"
              \/ /\ engine = "RealtimeClient"
                 /\ \/ Handles("response.function_call_arguments.done")
                    \/ pcMsg = "fn_item" /\ pcMsg' = "done"]_vars

C6_Witness ==
    /\ drop_audio_until_cancelled
    /\ pcCtl = "poll"
    /\ ~interrupt_flag
    /\ hist.pending = 1
    /\ srv.events = MaxEvents
    /\ inbound = <<>>

\* C7: while a cancel-response awaits its confirmation the controller starts
\* no further interruption: no second teardown, no second cancel-response.
C7_SecondKeypressNoOp == InControllerRun => hist.pending = 0

\* C8 as stated: once a keypress is accepted no further audio-delta is
\* written to the output device.
C8_NoWriteAfterKeypress == [][interrupt_flag => writes' = writes]_vars

\* C8 amended: once the controller has picked the request up and set the
\* suppress flag, no audio-delta is written to the output device for as long
\* as the flag stays set, however many deltas are queued.
C8_NoWriteWhileSuppressed ==
    [][drop_audio_until_cancelled => writes' = writes]_vars

C8_Witness ==
    /\ drop_audio_until_cancelled
    /\ hist.dropped > 0
    /\ Len(writes) > 0
    /\ inbound # <<>>
    /\ Head(inbound).type = "response.audio.delta"

\* The input_audio_buffer.append events sent so far.
AppendsSent == SelectSeq(sent, LAMBDA m : m.type = "input_audio_buffer.append")

\* C9: no input_audio_buffer.append is sent for a frame that was captured
\* while is_ai_speaking was true.
C9_NoAppendWhileSpeaking ==
    \A i \in 1..Len(AppendsSent) : ~frames[AppendsSent[i].id].speaking

\* C10 as stated: in RealtimeClient, once every captured frame has been
\* processed, the appends sent are, in capture order and each exactly once,
\* the frames that were read while is_ai_speaking was false.
C10_AppendsAreFramesReadSilent ==
    (engine = "RealtimeClient" /\ ws = "open" /\ pcCap \in {"sleep", "reading"})
        => LET silent == SelectSeq(frames, LAMBDA f : ~f.speaking)
           IN  /\ Len(AppendsSent) = Len(silent)
               /\ \A i \in 1..Len(silent) : AppendsSent[i].id = silent[i].seq

\* C10 amended: in RealtimeClient the appends sent are, in capture order and
\* each exactly once, the frames for which is_ai_speaking was false when the
\* capture loop tested it, after the read had returned, on an open
\* connection.
C10_AppendsAreFramesTestedSilent ==
    engine = "RealtimeClient"
        => LET passed == SelectSeq(frames, LAMBDA f : f.tested = "silent"
                                                       /\ f.conn = "open")
           IN  /\ Len(AppendsSent) = Len(passed)
               /\ \A i \in 1..Len(passed) : AppendsSent[i].id = passed[i].seq

C10_Witness ==
    /\ engine = "RealtimeClient"
    /\ Len(AppendsSent) = 2
    /\ \E i \in 1..Len(frames) : frames[i].tested = "speaking"
    /\ \E i \in 1..Len(frames) : frames[i].speaking /\ frames[i].tested = "silent"

\* The engine has shut down: is_running is false, the three coroutines have
\* returned and cleanup has run.
ShutDown ==
    /\ ~is_running
    /\ pcCap = "done" /\ pcMsg = "done" /\ pcCtl = "done"
    /\ pcRun = "done"

\* C11: after a capture-device read error the running flag becomes false,
\* the event handler and the interrupt-polling task terminate and cleanup
\* runs.
C11_ReadErrorShutsDown == hist.readError ~> ShutDown

\* C12: once the event handler has observed the connection close, the
\* capture task and the interrupt-polling task terminate too and cleanup
\* runs.
C12_CloseIsTerminal ==
    (hist.msgEnd = "closed") ~> (pcCap = "done" /\ pcCtl = "done" /\ pcRun = "done")

\* The handler is about to take the function_call_arguments.done event of
\* call k for the function `name`.
CallAtHead(k, name) ==
    /\ Receives("response.function_call_arguments.done")
    /\ Head(inbound).id = k
    /\ Head(inbound).arg = name

\* The function-result items and the request-responses sent for call k.
ResultsSent(k) ==
    SelectSeq(sent, LAMBDA m : m.type = "conversation.item.create"
                               /\ m.arg = "function_call_output" /\ m.id = k)

ResponsesSent(k) ==
    SelectSeq(sent, LAMBDA m : m.type = "response.create" /\ m.id = k)

\* This step sends a response.create.
SendsResponseCreate ==
    /\ Len(sent') = Len(sent) + 1
    /\ sent'[Len(sent')].type = "response.create"

\* C13: a function_call_arguments.done event for end_conversation leads to
\* exactly one function-result for its call id and to shutdown (is_running
\* false, every task returned, cleanup run); once the grace period is over
\* no response.create is sent.
C13_EndConversationShutsDown ==
    /\ \A k \in 1..MaxTools :
           CallAtHead(k, "end_conversation")
               ~> (ShutDown /\ Len(ResultsSent(k)) = 1)
    /\ [][(engine = "RealtimeClient" /\ pcRun = "running" /\ ~is_running)
              => ~SendsResponseCreate]_vars

\* The function_call_arguments.done event of call k has been handled to the
\* end: the server emitted it, it is no longer in flight and the handler is
\* not in the middle of it.
CallHandled(k) ==
    /\ k <= srv.tools
    /\ \A i \in 1..Len(inbound) :
           ~(inbound[i].type = "response.function_call_arguments.done"
             /\ inbound[i].id = k)
    /\ call.id # k

\* The request-response of call k comes after its function-result.
ResultBeforeResponse(k) ==
    \A i, j \in 1..Len(sent) :
        (/\ sent[i].type = "response.create" /\ sent[i].id = k
         /\ sent[j].type = "conversation.item.create" /\ sent[j].id = k) => j < i

\* C14 as stated: every handled function_call_arguments.done event has
\* exactly one function-result with its call id, followed by exactly one
\* request-response, also when a send in the handler fails; a
\* function_call_arguments.delta event sends nothing and dispatches nothing.
C14_ExactlyOneResultAndResponse ==
    /\ [](\A k \in 1..MaxTools :
             CallHandled(k) => /\ Len(ResultsSent(k)) = 1
                               /\ Len(ResponsesSent(k)) = 1
                               /\ ResultBeforeResponse(k))
    /\ [][Handles("response.function_call_arguments.delta")
              => UNCHANGED <<sent, call>>]_vars

\* C14 amended: for every call id at most one function-result and at most
\* one request-response are sent, the request-response only after the
\* function-result, and none before the event is received; both are sent
\* exactly once when the connection is open throughout the handling; a
\* function_call_arguments.delta event sends nothing and dispatches nothing.
C14_AtMostOneResultAndResponse ==
    /\ [](\A k \in 1..MaxTools :
             /\ Len(ResultsSent(k)) <= 1
             /\ Len(ResponsesSent(k)) <= Len(ResultsSent(k))
             /\ ResultBeforeResponse(k)
             /\ k > srv.tools => Len(ResultsSent(k)) = 0
             /\ (CallHandled(k) /\ ws = "open") =>
                    Len(ResultsSent(k)) = 1 /\ Len(ResponsesSent(k)) = 1)
    /\ [][Handles("response.function_call_arguments.delta")
              => UNCHANGED <<sent, call>> /\ pcMsg' = "recv"]_vars

C14_Witness ==
    /\ CallHandled(1)
    /\ Len(ResponsesSent(1)) = 1
    /\ srv.events > 1
    /\ pcMsg = "recv"
    /\ ws = "open"

\* The tool calls that are open: their function_call_arguments.done event
\* has been taken by the handler and no function-result has been sent.
OpenCalls ==
    {k \in 1..MaxTools :
        /\ k <= srv.tools
        /\ \A i \in 1..Len(inbound) :
               ~(inbound[i].type = "response.function_call_arguments.done"
                 /\ inbound[i].id = k)
        /\ Len(ResultsSent(k)) = 0}

C17_OneEventAtATimeInOrder ==
    [][inbound' # inbound =>
          \/ /\ Len(inbound') = Len(inbound) + 1
             /\ SubSeq(inbound', 1, Len(inbound)) = inbound
          \/ /\ inbound' = Tail(inbound)
             /\ pcMsg = "recv"
             /\ call = NoCall
             /\ pcMsg' \in {"recv", "fn_item", "done"}]_vars

\* An event waits in the queue while the grace period of end_conversation
\* runs.
C17_Witness ==
    /\ pcMsg = "grace"
    /\ inbound # <<>>
    /\ Len(ResponsesSent(1)) = 1

\* C18: the handling of an event of unknown type changes none of the
\* running, AI-speaking, suppress and interrupt flags nor the session id,
\* sends nothing and writes nothing to the output device, and leaves the
\* handler at the top of its loop, ready for the next event.
C18_UnknownEventIsIgnored ==
    [][(\E t \in Unrecognized : Handles(t)) =>
          /\ UNCHANGED <<is_running, is_ai_speaking, interrupt_flag,
                         drop_audio_until_cancelled, session_id>>
          /\ UNCHANGED <<sent, writes, output_stream, ws, call>>
          /\ pcMsg' = "recv"]_vars

\* An unknown event has been handled in a session that has an id and is
\* playing a response, and the handler is at work on a later event.
C18_Witness ==
    /\ hist.ignored
    /\ session_id = "sess"
    /\ is_ai_speaking
    /\ pcMsg = "recv"
    /\ inbound # <<>>

\* C19: a message that cannot be decoded is logged and ignored and the
\* session continues: handle_messages never ends on the exception that the
\* decoding of a message raised, it stays in its loop for the events that
\* follow.
C19_MalformedIsIgnored == ~(pcMsg = "done" /\ hist.msgEnd = "error")

\* An output_stream.write has raised.
WriteRaised == \E i \in 1..Len(writes) : writes[i].stream = "broken"

\* C20: after a write to the playback device raises, is_running becomes
\* false and the capture task, the event handler and the controller all
\* terminate.
C20_WriteFailureShutsDown ==
    WriteRaised ~> (/\ ~is_running
                    /\ pcCap = "done" /\ pcMsg = "done" /\ pcCtl = "done")

\* The result is an object with the one field `error`.
IsErrorResult(result) == DOMAIN result = {"error"}

\* The call is one that execute_function cannot carry out: the arguments
\* are no object, or hold a keyword the tool does not take.
BadArguments(function_name, arguments) ==
    \/ ~IsMapping(arguments)
    \/ ~(Keywords(arguments) \subseteq Parameters(function_name))

\* C21: execute_function never raises; for a name outside the registry it
\* returns an object whose one field, error, names the unknown function,
\* and for a registered name with arguments it does not accept it returns
\* an object of the same shape.
C21_ExecuteFunctionNeverRaises ==
    tool.result # NoResult =>
        /\ "raised" \notin DOMAIN tool.result
        /\ tool.name \notin FUNCTION_MAP =>
               tool.result = [error |-> <<"unknown function", tool.name>>]
        /\ (tool.name \in FUNCTION_MAP /\ BadArguments(tool.name, tool.arguments)) =>
               /\ IsErrorResult(tool.result)
               /\ tool.result.error[1] = "execution error"

\* A registered tool has been called with a keyword it does not take.
C21_Witness ==
    /\ tool.name = "get_weather"
    /\ tool.arguments = "{category}"
    /\ IsErrorResult(tool.result)

\* C22: when the tool of a function call fails (arguments that are no
\* JSON, unknown name, bad arguments, missing data file), a function-result
\* with the structured error is sent for that call id, the handler goes on
\* with the next inbound event and is_running is unchanged.
C22_ToolFailureIsReported ==
    (IsErrorResult(tool.result) /\ ws = "open") =>
        /\ Len(ResultsSent(tool.call_id)) = 1
        /\ pcMsg \in {"fn_item", "recv"}
        /\ is_running

\* The loud frames of a buffer: the speech detected between speech-start
\* and speech-end.
Speech(buffer) == SelectSeq(buffer, LAMBDA f : f.loud)

\* C23: no utterance whose detected speech is shorter than the minimum
\* speech duration is handed to the transcriber, however many quiet frames
\* were captured before the speech started.
C23_NoShortUtteranceTranscribed ==
    \A i \in 1..Len(seg.transcribed) :
        Len(Speech(seg.transcribed[i])) >= MinSpeechFrames

\* No frame captured so far was loud.
AllQuiet == /\ ~seg.audio_data.loud
            /\ \A i \in 1..Len(seg.speech_buffer) : ~seg.speech_buffer[i].loud
            /\ Len(seg.speech_buffer) + (IF pcCap = "got" THEN 1 ELSE 0) = seg.captured

\* The user-text items and the request-responses of the capture task.
TextSent ==
    SelectSeq(sent, LAMBDA m : m.type \in {"conversation.item.create",
                                           "response.create"})

\* C24: while no captured frame is above the energy threshold the segmenter
\* produces no utterance: is_speaking is never set, the transcriber is
\* never invoked, and neither a user-text item nor a response.create is
\* sent.
C24_SilenceProducesNothing ==
    AllQuiet => /\ ~seg.is_speaking
                /\ seg.transcribed = <<>>
                /\ pcCap \notin {"transcribing", "loc_item"}
                /\ TextSent = <<>>

\* The whole run was silence.
C24_Witness ==
    /\ AllQuiet
    /\ seg.captured = MaxCaptured
    /\ pcCap = "sleep"

\* The frames captured so far are k quiet frames, then n loud ones, then
\* quiet ones.
Pattern(k, n) ==
    /\ k + n <= Len(seg.heard)
    /\ \A i \in 1..Len(seg.heard) : seg.heard[i] <=> (k < i /\ i <= k + n)

\* The frames 1..k+n in capture order, the first k quiet and the others
\* loud.
Utterance(k, n) == [i \in 1..(k + n) |-> [n |-> i, loud |-> i > k]]

\* C25: for a capture of k quiet frames, n loud frames (n at least the
\* minimum speech length), then silence longer than the silence duration,
\* exactly one utterance is handed to the transcriber: the k pre-roll frames
\* followed by the n loud frames in capture order, and no frame of the
\* trailing silence.
C25_OneUtteranceWithAllSpeech ==
    \A k \in 0..MaxCaptured : \A n \in MinSpeechFrames..MaxCaptured :
        Pattern(k, n) =>
            /\ Len(seg.transcribed) <= 1
            /\ \A i \in 1..Len(seg.transcribed) :
                   seg.transcribed[i] = Utterance(k, n)
            /\ (~seg.is_speaking /\ seg.audio_data = NoFrame) =>
                   Len(seg.transcribed) = 1

\* One quiet frame, four loud ones, and the silence that closed the
\* utterance.
C25_Witness ==
    /\ Pattern(1, MinSpeechFrames)
    /\ ~seg.is_speaking
    /\ seg.transcribed = <<Utterance(1, MinSpeechFrames)>>

\* C26: the frames held while the segmenter is not speaking stay within a
\* fixed bound however long the silence lasts.  On runs of MaxCaptured
\* frames: the buffer never holds every frame of the run.
C26_BackgroundBufferBounded ==
    ~seg.is_speaking => Len(seg.speech_buffer) < MaxCaptured

\* The capture task is closing an utterance: the frame at hand closes it,
\* or _process_speech is awaiting the transcription or the second send.
Closing ==
    \/ pcCap = "got" /\ SegCloses
    \/ pcCap \in {"transcribing", "loc_item"}

\* C27: whenever the segmenter closes an utterance it ends with
\* is_speaking false, the buffer empty and the silence timer unset, whether
\* the utterance was too short, was transcribed to a text or to nothing, or
\* the transcription or the send of the text failed.
C27_CloseResetsSegmenter ==
    [][(Closing /\ pcCap' = "sleep") =>
          /\ ~seg'.is_speaking
          /\ seg'.speech_buffer = <<>>
          /\ seg'.silence_start = "None"]_vars

\* An utterance was handed to the transcriber, the connection was lost
\* before its text could be sent, and the segmenter has been reset.
C27_Witness ==
    /\ Len(seg.transcribed) = 1
    /\ ws = "closed"
    /\ TextSent = <<>>
    /\ pcCap = "sleep"
    /\ seg.heard[Len(seg.heard)] = FALSE
    /\ ~seg.is_speaking /\ seg.speech_buffer = <<>> /\ seg.silence_start = "None"

\* The loop body runs for the frame read.
ProcessesFrame == pcCap = "got" /\ seg.audio_data # NoFrame /\ seg'.audio_data = NoFrame

\* C28: while the segmenter is speaking, a loud frame that arrives before
\* the silence duration has elapsed clears the silence timer and joins the
\* buffer, and the utterance stays open; an utterance is closed only by a
\* quiet frame that finds the silence older than the silence duration, so a
\* shorter pause never splits an utterance.
C28_SilenceHysteresis ==
    /\ [][(/\ ProcessesFrame
            /\ ~is_ai_speaking
            /\ seg.is_speaking
            /\ seg.audio_data.loud
            /\ seg.silence_start # "old") =>
              /\ seg'.silence_start = "None"
              /\ seg'.speech_buffer = Append(seg.speech_buffer, seg.audio_data)
              /\ seg'.is_speaking
              /\ seg'.transcribed = seg.transcribed]_vars
    /\ [][(\/ seg'.transcribed # seg.transcribed
           \/ seg.is_speaking /\ ~seg'.is_speaking) =>
              seg.silence_start = "old"]_vars

\* An open utterance that holds the speech before and after a pause.
C28_Witness ==
    /\ seg.is_speaking
    /\ seg.silence_start = "None"
    /\ seg.transcribed = <<>>
    /\ \E i \in 1..(Len(seg.speech_buffer) - 1) :
           /\ seg.speech_buffer[i].loud
           /\ seg.speech_buffer[i + 1].loud
           /\ seg.speech_buffer[i + 1].n > seg.speech_buffer[i].n + 1

\* C29: no playback write is attempted on a handle that the interruption
\* is closing and reopening: in every interleaving of the handler and the
\* controller no write happens while the controller is between its pickup
\* and its cancel send, and every write targets an open output stream.
C29_WritesTargetOpenStream ==
    /\ [][writes' # writes => ~InControllerRun]_vars
    /\ [](\A i \in 1..Len(writes) : writes[i].stream = "open")

\* The controller finishes the handling of an interrupt in this step.
FinishesInterrupt == pcCtl \in {"sent", "failed"} /\ pcCtl' = "poll"

\* C30: the controller never waits for the server's answer.  Once the
\* cancel-response is sent, or its send has failed, the controller's next
\* step is enabled whatever the inbound stream holds; that step clears
\* interrupt_flag, and is_ai_speaking is false then unless the handler has
\* meanwhile played audio of a response that is not suppressed.
C30_ControllerNeverWaits ==
    /\ [](pcCtl \in {"sent", "failed"} => ENABLED (CtlAfterSend \/ CtlAfterFail))
    /\ [][FinishesInterrupt =>
              /\ ~interrupt_flag'
              /\ drop_audio_until_cancelled => ~is_ai_speaking']_vars

\* The unconditional statement: is_ai_speaking is false at every finish.
C30_FinishesWithSpeakingFalse ==
    [][FinishesInterrupt => (~interrupt_flag' /\ ~is_ai_speaking')]_vars

\* The interrupt is finished and capture is enabled again while the
\* cancel-response has not even been read by the server.
C30_Witness ==
    /\ pcCtl = "poll"
    /\ hist.pending = 1
    /\ srv.read < Len(sent)
    /\ sent[Len(sent)].type = "response.cancel"
    /\ ~interrupt_flag
    /\ ~is_ai_speaking
    /\ drop_audio_until_cancelled

\* C35: for every location, get_weather returns an object whose location is
\* the argument, whose condition is one of the first four of the six
\* conditions, and whose temperature is an integer from 15 to 30.
C35_WeatherIsMildAndLocal ==
    (tool.name = "get_weather" /\ tool.result # NoResult) =>
        /\ tool.result.location = tool.arguments.location
        /\ \E c \in 1..4 : tool.result.condition = weather_conditions[c]
        /\ Len(weather_conditions) = 6
        /\ tool.result.temperature \in 15..30

\* get_weather has returned for Beijing, with the last of the four
\* conditions and the highest temperature.
C35_Witness ==
    /\ tool.name = "get_weather"
    /\ tool.result # NoResult
    /\ tool.arguments.location = "Beijing"
    /\ tool.result.location = "Beijing"
    /\ tool.result.condition = "light rain"
    /\ tool.result.temperature = 30

\* C36: in every state between task steps (no coroutine is in the middle of
\* a run) the suppress flag being set implies that is_ai_speaking is false.
\* The controller writes both flags in one run, and no event sets
\* is_ai_speaking while the suppress flag is set.
C36_SuppressImpliesNotSpeaking ==
    /\ [](loop = "idle" /\ drop_audio_until_cancelled => ~is_ai_speaking)
    /\ [][(~drop_audio_until_cancelled /\ drop_audio_until_cancelled')
              => (loop' = "ctl" /\ pcCtl' = "speaking")]_vars
    /\ [][(drop_audio_until_cancelled /\ ~is_ai_speaking) => ~is_ai_speaking']_vars

\* An audio-delta has been dropped and the session is still muted, with
\* every task parked at an await.
C36_Witness ==
    /\ loop = "idle"
    /\ drop_audio_until_cancelled
    /\ ~is_ai_speaking
    /\ hist.dropped > 0
    /\ pcCtl = "poll"

\* The send of the cancel-response raises in this step.
CancelSendFails == pcCtl = "cancel" /\ pcCtl' = "failed"

\* The controller finishes an interrupt whose cancel-response was not sent.
FinishesFailedInterrupt == pcCtl = "failed" /\ pcCtl' = "poll"

RECURSIVE CancelsSent(_)
CancelsSent(s) ==
    IF s = <<>> THEN 0
    ELSE CancelsSent(Tail(s)) + (IF Head(s).type = "response.cancel" THEN 1 ELSE 0)

\* input() returns in this step.
Keypress == hist.keys' = hist.keys + 1

\* C37: a keypress is accepted only when is_ai_speaking is read true, and a
\* keypress read while it is false changes neither flag nor the output
\* stream and sends nothing; a cancel-response is sent only in a run the
\* interrupt flag started, the flag is set only by an accepted keypress, at
\* most one cancel-response is sent per accepted keypress, and the
\* controller clears the interrupt flag after the send.
C37_CancelOnlyOnAcceptedKeypress ==
    /\ [][(Keypress /\ pcKbd' = "set") => is_ai_speaking]_vars
    /\ [][(Keypress /\ ~is_ai_speaking) =>
              /\ pcKbd' # "set"
              /\ UNCHANGED <<interrupt_flag, drop_audio_until_cancelled,
                             output_stream, sent>>]_vars
    /\ [][(~interrupt_flag /\ interrupt_flag') =>
              (pcKbd = "set" /\ hist.accepted' = hist.accepted + 1)]_vars
    /\ [][CancelsSent(sent') > CancelsSent(sent) =>
              (interrupt_flag /\ InControllerRun)]_vars
    /\ [](CancelsSent(sent) <= hist.accepted)
    /\ [][(pcCtl = "sent" /\ pcCtl' = "poll") => ~interrupt_flag']_vars

\* Two keypresses, one of them rejected and the other accepted, have led to
\* one cancel-response, and the interrupt is finished.
C37_Witness ==
    /\ hist.keys = 2
    /\ hist.accepted = 1
    /\ CancelsSent(sent) = 1
    /\ pcCtl = "poll"
    /\ pcKbd # "set"
    /\ ~interrupt_flag

\* The capture task is suspended in _process_speech: it awaits the
\* transcription, or the send of the user message.
AwaitsProcessSpeech == pcCap \in {"transcribing", "loc_item"}

\* C34: the capture task keeps reading frames while an utterance is being
\* transcribed and while an outbound send is pending: a device read can
\* return then.
C34_CaptureKeepsReading ==
    (AwaitsProcessSpeech /\ seg.captured < MaxCaptured) => ENABLED SegRead

\* The local engine's loop body processes the frame it has read.
RoutesFrame == engine = "RealtimeLocalASR" /\ pcCap = "got" /\ pcCap' # "got"

\* speech_buffer, is_speaking and silence_start.
SegmenterState(g) == <<g.speech_buffer, g.is_speaking, g.silence_start>>

\* The append-audio events sent for frame number n.
AppendsOf(n) == SelectSeq(sent, LAMBDA m : m.type = "input_audio_buffer.append"
                                             /\ m.id = n)

\* Every frame processed has one destination: in the local engine the
\* segmenter or nowhere, in RealtimeClient the connection (one append-audio
\* event) or nowhere.
OneDestination ==
    /\ engine = "RealtimeLocalASR" =>
           /\ Len(seg.routed) = seg.captured - (IF seg.audio_data = NoFrame THEN 0 ELSE 1)
           /\ \A i \in 1..Len(seg.routed) : seg.routed[i] \in {"segmenter", "discard"}
    /\ engine = "RealtimeClient" =>
           \A i \in 1..Len(frames) :
               Len(AppendsOf(frames[i].seq)) =
                   IF frames[i].tested = "silent" /\ frames[i].conn = "open"
                   THEN 1 ELSE 0

\* C33 as stated: in the local engine a frame is discarded exactly when
\* is_ai_speaking was true when it was captured.
C33_RoutedByFlagAtCapture ==
    engine = "RealtimeLocalASR" =>
        \A i \in 1..Len(seg.routed) :
            seg.routed[i] = IF seg.flags[i] THEN "discard" ELSE "segmenter"

\* C33 amended: every frame has one destination; in the local engine a
\* frame for which is_ai_speaking is true when the loop tests it, after the
\* read has returned, is discarded and leaves speech_buffer, is_speaking and
\* silence_start unchanged, any other frame goes to the segmenter (a loud
\* one joins the buffer and sets is_speaking), and no append-audio event is
\* ever sent.
C33_RoutedByFlagAtTest ==
    /\ []OneDestination
    /\ [](engine = "RealtimeLocalASR" => AppendsSent = <<>>)
    /\ [][RoutesFrame =>
              IF is_ai_speaking
              THEN /\ seg'.routed = Append(seg.routed, "discard")
                   /\ SegmenterState(seg') = SegmenterState(seg)
              ELSE /\ seg'.routed = Append(seg.routed, "segmenter")
                   /\ seg.audio_data.loud =>
                          /\ seg'.speech_buffer = Append(seg.speech_buffer, seg.audio_data)
                          /\ seg'.is_speaking]_vars

\* The local engine has discarded a loud frame that was read and tested
\* while the AI spoke, and has fed another frame to the segmenter.
C33_Witness ==
    /\ engine = "RealtimeLocalASR"
    /\ \E i \in 1..Len(seg.routed) :
           seg.flags[i] /\ seg.heard[i] /\ seg.routed[i] = "discard"
    /\ \E i \in 1..Len(seg.routed) : seg.routed[i] = "segmenter"
    /\ seg.speech_buffer # <<>>

\* RealtimeClient's loop body processes the frame it has read.
TestsFrame == engine = "RealtimeClient" /\ pcCap = "got" /\ pcCap' # "got"

\* C31 as stated: every frame captured after a response.done was handled
\* and before the next audio-delta is played (its predecessor was captured
\* while is_ai_speaking was true, the frame itself while it was false) is
\* transmitted, or fed to the segmenter.
C31_FramesCapturedWhileListening ==
    /\ engine = "RealtimeLocalASR" =>
           \A i \in 2..Len(seg.routed) :
               (seg.flags[i - 1] /\ ~seg.flags[i]) => seg.routed[i] = "segmenter"
    /\ engine = "RealtimeClient" =>
           \A i \in 2..Len(frames) :
               (frames[i - 1].speaking /\ ~frames[i].speaking
                    /\ frames[i].tested # "unset")
                   => Len(AppendsOf(frames[i].seq)) = 1

\* C31 amended: handling response.done leaves is_ai_speaking false, it stays
\* false until an audio-delta is played, and every frame the capture loop
\* tests while it is false is fed to the segmenter (local engine) or, on an
\* open connection, sent as an append-audio event (RealtimeClient).
C31_ListeningAfterResponseDone ==
    /\ [][Handles("response.done") => ~is_ai_speaking']_vars
    /\ [][(~is_ai_speaking /\ is_ai_speaking') => Len(writes') = Len(writes) + 1]_vars
    /\ [][(RoutesFrame /\ ~is_ai_speaking) =>
              seg'.routed = Append(seg.routed, "segmenter")]_vars
    /\ [][(TestsFrame /\ ~is_ai_speaking /\ ws = "open") =>
              sent' = Append(sent, Ev("input_audio_buffer.append",
                                      frames[Len(frames)].seq, "audio"))]_vars

\* RealtimeClient has sent a frame that was captured and tested after the
\* response that muted its predecessor had ended.
C31_Witness ==
    /\ engine = "RealtimeClient"
    /\ \E i \in 2..Len(frames) :
           /\ frames[i - 1].speaking /\ frames[i - 1].tested = "speaking"
           /\ ~frames[i].speaking /\ frames[i].tested = "silent"
           /\ Len(AppendsOf(frames[i].seq)) = 1

\* The user-text items and the request-responses sent.
TextItems == SelectSeq(sent, LAMBDA m : m.type = "conversation.item.create"
                                        /\ m.arg = "input_text")

CreatesSent == SelectSeq(sent, LAMBDA m : m.type = "response.create")

\* The texts of the utterances that were transcribed to a non-empty text.
Said ==
    LET spoken == SelectSeq(seg.texts, LAMBDA r : TextOf(r) # "")
    IN  [i \in 1..Len(spoken) |-> TextOf(spoken[i])]

\* The capture task is not inside _process_speech.
Processed == pcCap \notin {"transcribing", "loc_item"}

\* C32 as stated: once _process_speech has returned, the user-text items
\* sent are the non-empty texts, one item each and in order, and there are as
\* many request-responses; RealtimeClient sends no user-text item.
C32_OneItemAndResponsePerText ==
    /\ Processed => /\ Len(TextItems) = Len(Said)
                    /\ \A i \in 1..Len(Said) : TextItems[i].text = Said[i]
                    /\ Len(CreatesSent) = Len(Said)
    /\ engine = "RealtimeClient" => TextItems = <<>>

\* C32 amended: the user-text items sent carry, one each and in order, the
\* first of the non-empty texts, stripped of the blanks around them, every
\* request-response follows the item it belongs to, and there is never more
\* than one per item; once
\* _process_speech has returned on an open connection there is exactly one
\* item and one request-response per non-empty text.  An empty text and a
\* failed transcription send nothing.  RealtimeClient sends no user-text
\* item.
C32_AtMostOneItemAndResponsePerText ==
    /\ [](/\ Len(TextItems) <= Len(Said)
          /\ \A i \in 1..Len(TextItems) : TextItems[i].text = Said[i]
          /\ \A i \in 1..Len(TextItems) : TextItems[i].text \notin {"", "  ", " hello "}
          /\ Len(CreatesSent) <= Len(TextItems)
          /\ Len(CreatesSent) >= Len(TextItems) - 1
          /\ (Processed /\ ws = "open") =>
                 (Len(TextItems) = Len(Said) /\ Len(CreatesSent) = Len(Said))
          /\ engine = "RealtimeClient" => TextItems = <<>>)
    /\ [][Len(CreatesSent') > Len(CreatesSent) =>
              (sent # <<>> /\ sent[Len(sent)].type = "conversation.item.create"
                          /\ sent[Len(sent)].arg = "input_text")]_vars
    /\ [][(pcCap = "transcribing" /\ pcCap' # "transcribing"
              /\ TextOf(seg'.texts[Len(seg'.texts)]) = "") => sent' = sent]_vars

\* An utterance was transcribed to a text with blanks around it; the item
\* carrying the stripped text and the request-response have been sent.
C32_Witness ==
    /\ Len(seg.texts) = 1
    /\ seg.texts[1] = [text |-> " hello "]
    /\ Len(TextItems) = 1
    /\ TextItems[1].text = "hello"
    /\ Len(CreatesSent) = 1
    /\ sent[Len(sent)].type = "response.create"
    /\ pcCap = "sleep"

\* The function_call_arguments.done event of an end_conversation call has
\* been handled.
EndConversationHandled == tool.name = "end_conversation" /\ tool.result # NoResult

\* No inbound event is handled in this step: nothing is taken from the
\* inbound stream, nothing is written to the output device, and the flags
\* and the output stream stay as they are.
HandlesNothing ==
    /\ Len(inbound') >= Len(inbound)
    /\ writes' = writes
    /\ UNCHANGED <<is_ai_speaking, interrupt_flag, drop_audio_until_cancelled,
                   output_stream>>

\* C39 as stated: once the function_call_arguments.done event of an
\* end_conversation call has been handled, no inbound event is handled.
C39_NothingHandledAfterEnd ==
    [][EndConversationHandled => HandlesNothing]_vars

\* C39 amended: once the function_call_arguments.done event of an
\* end_conversation call whose arguments string decodes has been handled,
\* no inbound event is handled.
C39_NothingHandledAfterDecodedEnd ==
    [][(EndConversationHandled /\ Decodes(tool.arguments)) => HandlesNothing]_vars

\* The conversation was ended and the grace period is over; an audio-delta
\* that arrived meanwhile is still in the inbound stream, and nothing was
\* ever played.
C39_Witness ==
    /\ EndConversationHandled
    /\ Decodes(tool.arguments)
    /\ pcMsg = "done"
    /\ ~is_running
    /\ inbound # <<>>
    /\ Head(inbound).type = "response.audio.delta"
    /\ writes = <<>>
    /\ ~is_ai_speaking

=============================================================================
